---- MODULE Spec2Model ----
(***************************************************************************)
(* A model of the short-atr scripts: the volume ranker                     *)
(* (all_sym_rank.py: get_top_100_um_futures), the pump detector            *)
(* (pump.py: CryptoPumpDetector) and the ATR scanner (pump.py: ATRScanner).*)
(*                                                                         *)
(* Numbers.  The scripts compute on floats.  Prices, volumes and ratios    *)
(* are modelled as exact rationals [n |-> numerator, d |-> denominator]    *)
(* kept in lowest terms with d > 0; a symbol is the sequence of the        *)
(* tokens its string is made of ("BTC" "USDT"), so that endswith, the      *)
(* substring test and replace are computed, not assumed.                   *)
(***************************************************************************)
EXTENDS Integers, Sequences, FiniteSets, TLC

VARIABLES
    prog,       \* which script runs: "rank", "score", "atr", "pump", "scan"
    pc,         \* the position in that script
    ret,        \* the value the script's function returned (NotReturned before)
    i,          \* the index of the script's for loop (1-based)
    visited,    \* history: one entry per iteration of the for loop, in order: the
                \* symbol taken and what the iteration did
    \* get_top_100_um_futures
    ticker_stats, usdt_futures, usdt_futures_sorted, top_100,
    \* CryptoPumpDetector: calculate_pump_score, find_pumped_coins
    metrics, score, ticker_data, potential_pumps, pumped_coins, min_pump_score, top_n,
    kline_data, \* calculate_pump_metrics: the candles get_kline_data returned
    \* ATRScanner: calculate_atr, calculate_atr_percentage, scan_symbols
    \* (period and multiplier are scan_symbols' atr_period and atr_multiplier)
    df, period, multiplier, atr_value, current_price, atr_percentage,
    symbols, results, min_atr_percentage

ctlVars == <<prog, pc, ret, i, visited>>
rankVars == <<ticker_stats, usdt_futures, usdt_futures_sorted, top_100>>
pumpVars == <<metrics, score, ticker_data, potential_pumps, pumped_coins, min_pump_score, top_n,
              kline_data>>
atrVars == <<df, period, multiplier, atr_value, current_price, atr_percentage,
             symbols, results, min_atr_percentage>>

vars == <<ctlVars, rankVars, pumpVars, atrVars>>

\* A variable that the running script has not assigned (yet) holds the empty value
\* of its kind; no action reads a variable before the script has assigned it.
NoList == <<>>
NoFloat == [n |-> 0, d |-> 1]
NoDict == [symbol |-> <<>>]
NoFrame == [kind |-> "None", rows |-> <<>>]

\* What a function returned: None, a list, or an exception that left it.
NotReturned == [kind |-> "running"]
ReturnNone == [kind |-> "None"]
ReturnList(l) == [kind |-> "list", val |-> l]
Raised == [kind |-> "raise"]

\* The variables of a script that is not the one running.
RankUnused ==
    /\ ticker_stats = NoList /\ usdt_futures = NoList
    /\ usdt_futures_sorted = NoList /\ top_100 = NoList
PumpUnused ==
    /\ metrics = NoDict /\ score = NoFloat /\ ticker_data = NoList
    /\ potential_pumps = NoList /\ pumped_coins = NoList
    /\ min_pump_score = 0 /\ top_n = 0 /\ kline_data = NoList
AtrUnused ==
    /\ df = NoList /\ period = 0 /\ multiplier = NoFloat /\ atr_value = NoFloat
    /\ current_price = NoFloat /\ atr_percentage = NoFloat /\ symbols = NoList
    /\ results = NoList /\ min_atr_percentage = NoFloat

----------------------------------------------------------------------------
(* Bounds of the model *)

\* Longest ticker list enumerated exhaustively.
MaxTickers == 3
\* Largest quoteVolume of an enumerated ticker.
MaxVolume == 1
\* How many tickers beyond the top-100 cut the long ticker lists hold.
LongExtra == 1
\* The metrics handed to calculate_pump_score lie on grids: price_change_24h on
\* -5, 0, 5, ..., 5 * PriceSteps; volume_spike_ratio on 0, 1/2, ..., SpikeSteps / 2;
\* max_hourly_pump on 0, 5, ..., 5 * PumpSteps; distance_from_high on
\* 0, 5, ..., 5 * DistanceSteps; quote_volume_24h on 0, 500000, ..., 500000 * VolumeSteps.
PriceSteps == 12
SpikeSteps == 12
PumpSteps == 5
DistanceSteps == 7
VolumeSteps == 4
\* Longest ticker list find_pumped_coins is given, and the largest top_n.
MaxPumpTickers == 2
MaxTopN == 2
\* Longest candle series and largest period handed to calculate_atr.
MaxCandles == 3
MaxPeriod == 2
\* Longest exchange_info symbol list scan_symbols is given.
MaxSymbols == 3
\* Largest hourly volume of a candle given to calculate_pump_metrics alone.
MaxCandleVolume == 2

----------------------------------------------------------------------------
(* Sequences *)

Min(a, b) == IF a <= b THEN a ELSE b
Max(a, b) == IF a >= b THEN a ELSE b

SeqsUpTo(S, n) == UNION {[1..k -> S] : k \in 0..n}

\* Python's s[:n] for n >= 0.
Take(s, n) == SubSeq(s, 1, Min(n, Len(s)))

\* s[lo] + ... + s[hi], halving the range (the depth of evaluation stays small).
RECURSIVE SumRange(_, _, _)
SumRange(s, lo, hi) ==
    IF lo > hi THEN 0
    ELSE IF lo = hi THEN s[lo]
    ELSE LET mid == (lo + hi) \div 2
         IN  SumRange(s, lo, mid) + SumRange(s, mid + 1, hi)

\* sum(s)
SumSeq(s) == SumRange(s, 1, Len(s))

\* The places of s whose element has field f equal to v, as a subsequence.
WithKey(s, f, v) == SelectSeq(s, LAMBDA r : r[f] = v)

----------------------------------------------------------------------------
(* Rationals: [n |-> numerator, d |-> denominator], d > 0, in lowest terms *)

Abs(a) == IF a < 0 THEN -a ELSE a

RECURSIVE GCD(_, _)
GCD(a, b) == IF b = 0 THEN a ELSE GCD(b, a % b)

\* n / d for d # 0, in lowest terms.
Rat(n, d) ==
    LET g == GCD(Abs(n), Abs(d))
        sgn == IF d < 0 THEN -1 ELSE 1
    IN  [n |-> sgn * (n \div g), d |-> Abs(d) \div g]

FromInt(k) == [n |-> k, d |-> 1]
Zero == FromInt(0)

RAdd(x, y) == Rat(x.n * y.d + y.n * x.d, x.d * y.d)
RSub(x, y) == Rat(x.n * y.d - y.n * x.d, x.d * y.d)
RMul(x, y) == Rat(x.n * y.n, x.d * y.d)
\* x / y for y # 0.
RDiv(x, y) == Rat(x.n * y.d, x.d * y.n)
RLt(x, y) == x.n * y.d < y.n * x.d
RLe(x, y) == x.n * y.d <= y.n * x.d
RGt(x, y) == RLt(y, x)
RGe(x, y) == RLe(y, x)
RAbs(x) == [n |-> Abs(x.n), d |-> x.d]
RMax(x, y) == IF RGe(x, y) THEN x ELSE y
\* x > k, x < k for an integer k.
GtInt(x, k) == x.n > k * x.d
LtInt(x, k) == x.n < k * x.d

\* round(x, 2): the nearest multiple of 1/100, a tie going to the even one.  On the
\* values calculate_pump_score produces, the float product is the exact product
\* and Python's round() is this rounding.
Round2(x) ==
    LET q == (x.n * 100) \div x.d
        r == (x.n * 100) % x.d
        up == 2 * r > x.d \/ (2 * r = x.d /\ q % 2 = 1)
    IN  Rat(IF up THEN q + 1 ELSE q, 100)

----------------------------------------------------------------------------
(* sorted(key=..., reverse=True) and list.sort(key=..., reverse=True):     *)
(* Python's sort is stable, and with reverse=True elements with equal keys *)
(* keep their original order.  The keys are floats (rationals here).       *)

\* The mutant: among equal keys the later element comes first.
UnstableSortDescBy(s, f) ==
    LET n == Len(s)
        rank == [j \in 1..n |->
                    1 + Cardinality({k \in 1..n :
                            RGt(s[k][f], s[j][f]) \/ (s[k][f] = s[j][f] /\ k > j)})]
    IN  [r \in 1..n |-> s[CHOOSE j \in 1..n : rank[j] = r]]

\* The place of s[j] in the result is one more than the number of elements with a
\* larger key, or with the same key and an earlier place in s.
SortDescBy(s, f) ==
    LET n == Len(s)
        rank == [j \in 1..n |->
                    1 + Cardinality({k \in 1..n :
                            RGt(s[k][f], s[j][f]) \/ (s[k][f] = s[j][f] /\ k < j)})]
    IN  [r \in 1..n |-> s[CHOOSE j \in 1..n : rank[j] = r]]

----------------------------------------------------------------------------
(* Symbols *)

USDT == "USDT"
\* The quarterly-contract month codes of all_sym_rank.py line 24.
Months == {"0325", "0626", "0927", "1228"}

\* symbol.endswith('USDT')
EndsWithUSDT(symbol) == Len(symbol) > 0 /\ symbol[Len(symbol)] = USDT
\* any(month in symbol for month in [...])
HasMonth(symbol) == \E j \in 1..Len(symbol) : symbol[j] \in Months
\* symbol.replace('USDT', '')
ReplaceUSDT(symbol) == SelectSeq(symbol, LAMBDA t : t # USDT)

----------------------------------------------------------------------------
(* get_top_100_um_futures (all_sym_rank.py) *)

TOP_N == 100

RankSymbols ==
    { <<"BTC", USDT>>, <<"ETH", USDT>>, <<"ETH", "USDC">>, <<"BTC", USDT, "0325">>,
      <<"X", "0626", USDT>> }

RankTickers == [symbol : RankSymbols, quoteVolume : 0..MaxVolume]

\* Ticker lists longer than the cut: TOP_N + k tickers "1USDT", "2USDT", ...,
\* the volume of the j-th being (a * j) % 3.
LongTickers(k, a) ==
    [j \in 1..(TOP_N + k) |-> [symbol |-> <<ToString(j), USDT>>, quoteVolume |-> (a * j) % 3]]

TickerLists ==
    SeqsUpTo(RankTickers, MaxTickers)
        \cup {LongTickers(k, a) : k \in 1..LongExtra, a \in 0..2}

\* Lines 24-37: the filter and the record appended.
Accepted(ticker) == EndsWithUSDT(ticker.symbol) /\ ~HasMonth(ticker.symbol)

FutureOf(ticker) ==
    [symbol |-> ticker.symbol, baseAsset |-> ReplaceUSDT(ticker.symbol),
     quoteVolume |-> FromInt(ticker.quoteVolume)]

InitRank ==
    /\ prog = "rank" /\ pc = "fetch" /\ ret = NotReturned /\ i = 0
    /\ visited = <<>>
    /\ RankUnused /\ PumpUnused /\ AtrUnused

\* Line 17: the ticker list arrives, or the client raises (lines 73-75).
RankFetch ==
    /\ prog = "rank" /\ pc = "fetch"
    /\ \/ /\ \E l \in TickerLists : ticker_stats' = l
          /\ usdt_futures' = <<>>
          /\ i' = 1
          /\ pc' = "filter"
          /\ UNCHANGED ret
       \/ /\ pc' = "done"
          /\ ret' = ReturnNone
          /\ UNCHANGED <<ticker_stats, usdt_futures, i>>
    /\ UNCHANGED <<prog, visited, usdt_futures_sorted, top_100, pumpVars, atrVars>>

\* Lines 21-37: one iteration of the filter loop.
RankFilterStep ==
    /\ prog = "rank" /\ pc = "filter" /\ i <= Len(ticker_stats)
    /\ usdt_futures' =
          IF Accepted(ticker_stats[i])
          THEN Append(usdt_futures, FutureOf(ticker_stats[i]))
          ELSE usdt_futures
    /\ i' = i + 1
    /\ UNCHANGED <<prog, pc, ret, visited, ticker_stats, usdt_futures_sorted, top_100,
                   pumpVars, atrVars>>

\* The mutant: a sort that is not stable.
UnstableByQuoteVolume(l) == UnstableSortDescBy(l, "quoteVolume")

\* Line 40.
SortedByQuoteVolume(l) == SortDescBy(l, "quoteVolume")

\* Lines 40-43: the sort and the cut.
RankSort ==
    /\ prog = "rank" /\ pc = "filter" /\ i > Len(ticker_stats)
    /\ usdt_futures_sorted' = SortedByQuoteVolume(usdt_futures)
    /\ top_100' = Take(usdt_futures_sorted', TOP_N)
    /\ pc' = "display"
    /\ UNCHANGED <<prog, ret, i, visited, ticker_stats, usdt_futures, pumpVars, atrVars>>

\* Lines 46-52: pd.DataFrame(top_100) has the records' keys as its columns, and no
\* column at all when top_100 is empty; df['lastPrice'] then raises KeyError.
FrameRaises(l) == Len(l) = 0

\* Lines 46-75: the frame, the display and the return; an exception is caught at
\* line 73 and the function returns None.
RankDisplay ==
    /\ prog = "rank" /\ pc = "display"
    /\ ret' = IF FrameRaises(top_100) THEN ReturnNone
              ELSE ReturnList([j \in 1..Len(top_100) |-> top_100[j].baseAsset])
    /\ pc' = "done"
    /\ UNCHANGED <<prog, i, visited, rankVars, pumpVars, atrVars>>

NextRank == RankFetch \/ RankFilterStep \/ RankSort \/ RankDisplay

SpecRank == InitRank /\ [][NextRank]_vars

----------------------------------------------------------------------------
(* CryptoPumpDetector.calculate_pump_score (pump.py lines 137-187) *)

\* metrics.get(key, default)
Get(m, key, default) == IF key \in DOMAIN m THEN m[key] ELSE default

\* The mutant: >= where the code compares with >.
PriceChangePointsGe(price_change) ==
    IF ~LtInt(price_change, 50) THEN 40
    ELSE IF ~LtInt(price_change, 30) THEN 30
    ELSE IF ~LtInt(price_change, 15) THEN 20
    ELSE IF ~LtInt(price_change, 5) THEN 10
    ELSE 0

\* The mutant: the points of the second and third tier exchanged.
PriceChangePointsSwapped(price_change) ==
    IF GtInt(price_change, 50) THEN 40
    ELSE IF GtInt(price_change, 30) THEN 20
    ELSE IF GtInt(price_change, 15) THEN 30
    ELSE IF GtInt(price_change, 5) THEN 10
    ELSE 0

\* Lines 142-150.
PriceChangePoints(price_change) ==
    IF GtInt(price_change, 50) THEN 40
    ELSE IF GtInt(price_change, 30) THEN 30
    ELSE IF GtInt(price_change, 15) THEN 20
    ELSE IF GtInt(price_change, 5) THEN 10
    ELSE 0

\* Lines 153-161.
VolumeSpikePoints(volume_spike) ==
    IF GtInt(volume_spike, 5) THEN 25
    ELSE IF GtInt(volume_spike, 3) THEN 20
    ELSE IF GtInt(volume_spike, 2) THEN 15
    ELSE IF RGt(volume_spike, Rat(3, 2)) THEN 10
    ELSE 0

\* Lines 164-172.
MaxPumpPoints(max_pump) ==
    IF GtInt(max_pump, 20) THEN 20
    ELSE IF GtInt(max_pump, 15) THEN 15
    ELSE IF GtInt(max_pump, 10) THEN 10
    ELSE IF GtInt(max_pump, 5) THEN 5
    ELSE 0

\* Lines 175-181: the factor score is multiplied by.
DistanceFactor(distance) ==
    IF GtInt(distance, 30) THEN Rat(1, 2)
    ELSE IF GtInt(distance, 20) THEN Rat(7, 10)
    ELSE IF GtInt(distance, 10) THEN Rat(17, 20)
    ELSE FromInt(1)

\* The mutant: the score divided by 0.5 where the code multiplies.
LiquidityFactorInverted(quote_volume) ==
    IF LtInt(quote_volume, 1000000) THEN FromInt(2) ELSE FromInt(1)

\* Lines 184-185.
LiquidityFactor(quote_volume) ==
    IF LtInt(quote_volume, 1000000) THEN Rat(1, 2) ELSE FromInt(1)

calculate_pump_score(m) ==
    LET s1 == PriceChangePoints(m["price_change_24h"])
        s2 == s1 + VolumeSpikePoints(Get(m, "volume_spike_ratio", Zero))
        s3 == s2 + MaxPumpPoints(Get(m, "max_hourly_pump", Zero))
        s4 == RMul(FromInt(s3), DistanceFactor(Get(m, "distance_from_high", Zero)))
        s5 == RMul(s4, LiquidityFactor(m["quote_volume_24h"]))
    IN  Round2(s5)

(* The scorer alone, on metrics drawn from the grids. *)

PriceGrid == {FromInt(5 * k) : k \in -1..PriceSteps}
SpikeGrid == {Rat(k, 2) : k \in 0..SpikeSteps}
PumpGrid == {FromInt(5 * k) : k \in 0..PumpSteps}
DistanceGrid == {FromInt(5 * k) : k \in 0..DistanceSteps}
VolumeGrid == {FromInt(500000 * k) : k \in 0..VolumeSteps}

\* The metrics of a symbol with candles, and of one whose candles were not fetched
\* (lines 110-133 set the candle fields only when kline_data is not empty).
ScoreInputs ==
    [price_change_24h : PriceGrid, volume_spike_ratio : SpikeGrid,
     max_hourly_pump : PumpGrid, distance_from_high : DistanceGrid,
     quote_volume_24h : VolumeGrid]
    \cup [price_change_24h : PriceGrid, distance_from_high : DistanceGrid,
          quote_volume_24h : VolumeGrid]

InitScore ==
    /\ prog = "score" /\ pc = "call" /\ ret = NotReturned /\ i = 0
    /\ visited = <<>>
    /\ RankUnused /\ AtrUnused
    /\ metrics \in ScoreInputs
    /\ score = NoFloat /\ ticker_data = NoList /\ potential_pumps = NoList
    /\ pumped_coins = NoList /\ min_pump_score = 0 /\ top_n = 0
    /\ kline_data = NoList

\* The mutant: the scorer stores the score in the metrics it was given.
ScoreCallStoring ==
    /\ prog = "score" /\ pc = "call"
    /\ score' = calculate_pump_score(metrics)
    /\ metrics' = [pump_score |-> score'] @@ metrics
    /\ pc' = "done"
    /\ UNCHANGED <<prog, ret, i, visited, rankVars, atrVars, ticker_data,
                   potential_pumps, pumped_coins, min_pump_score, top_n, kline_data>>

\* One call of calculate_pump_score(metrics).
ScoreCall ==
    /\ prog = "score" /\ pc = "call"
    /\ score' = calculate_pump_score(metrics)
    /\ pc' = "done"
    /\ UNCHANGED <<prog, ret, i, visited, rankVars, atrVars, metrics, ticker_data,
                   potential_pumps, pumped_coins, min_pump_score, top_n, kline_data>>

NextScore == ScoreCall

SpecScore == InitScore /\ [][NextScore]_vars

----------------------------------------------------------------------------
(* CryptoPumpDetector.find_pumped_coins and what it calls (pump.py lines 42-228) *)

\* Line 22.
excluded_symbols == {<<"USDC", USDT>>, <<"TUSD", USDT>>, <<"BUSD", USDT>>, <<"FDUSD", USDT>>}

\* klines(limit=24) at line 109; the spike window at lines 128-130.
KLINE_LIMIT == 24
RECENT_HOURS == 6

\* sum(s) for floats, halving the range.
RECURSIVE RSumRange(_, _, _)
RSumRange(s, lo, hi) ==
    IF lo > hi THEN Zero
    ELSE IF lo = hi THEN s[lo]
    ELSE LET mid == (lo + hi) \div 2
         IN  RAdd(RSumRange(s, lo, mid), RSumRange(s, mid + 1, hi))

RSum(s) == RSumRange(s, 1, Len(s))

\* max(s[lo], ..., s[hi]) for lo <= hi, halving the range.
RECURSIVE RMaxRange(_, _, _)
RMaxRange(s, lo, hi) ==
    IF lo = hi THEN s[lo]
    ELSE LET mid == (lo + hi) \div 2
         IN  RMax(RMaxRange(s, lo, mid), RMaxRange(s, mid + 1, hi))

\* What the loop at lines 120-123 leaves in max_hourly_pump: the largest of start and
\* the elements of s.
RMaxFrom(start, s) ==
    IF Len(s) = 0 THEN start ELSE RMax(start, RMaxRange(s, 1, Len(s)))

\* ((a - b) / b) * 100 for b # 0.
PercentOver(a, b) == Rat((a - b) * 100, b)

\* What get_kline_data (lines 68-88) gives calculate_pump_metrics: the rows, [] after
\* a ClientError, or an exception of another class, which it does not catch.
KOk(rows) == [kind |-> "ok", rows |-> rows]
KClientError == [kind |-> "client_error", rows |-> <<>>]
KRaise == [kind |-> "raise", rows |-> <<>>]

\* calculate_pump_metrics raises ZeroDivisionError at line 104, 105, 114 or 122, or
\* passes on what get_kline_data raised.
MetricsRaises(data, k) ==
    \/ data.low_price = 0
    \/ data.high_price = 0
    \/ k.kind = "raise"
    \/ \E j \in 1..(Len(k.rows) - 1) : k.rows[j].close = 0

\* The mutant: the previous window runs one candle into the recent one.
VolumeSpikeRatioOverlapping(klines) ==
    LET n == Len(klines)
        vol == [j \in 1..n |-> klines[j].volume]
    IN  IF n >= KLINE_LIMIT
        THEN LET recent_volume == SumSeq(SubSeq(vol, n - RECENT_HOURS + 1, n))
                 previous_volume ==
                    SumSeq(SubSeq(vol, n - KLINE_LIMIT + 1, n - RECENT_HOURS + 1))
             IN  IF previous_volume > 0
                 THEN RDiv(FromInt(recent_volume), Rat(previous_volume, 3))
                 ELSE Zero
        ELSE Zero

\* Lines 128-133.
VolumeSpikeRatio(klines) ==
    LET n == Len(klines)
        vol == [j \in 1..n |-> klines[j].volume]
    IN  IF n >= KLINE_LIMIT
        THEN LET recent_volume == SumSeq(SubSeq(vol, n - RECENT_HOURS + 1, n))
                 previous_volume == SumSeq(SubSeq(vol, n - KLINE_LIMIT + 1, n - RECENT_HOURS))
             IN  IF previous_volume > 0
                 THEN RDiv(FromInt(recent_volume), Rat(previous_volume, 3))
                 ELSE Zero
        ELSE Zero

\* Lines 110-133: the fields set when kline_data is not empty.
CandleFields(klines) ==
    LET n == Len(klines)
        hourly_changes ==
            [j \in 1..(n - 1) |->
                RAbs(PercentOver(klines[j + 1].close, klines[j].close))]
        hourly_pumps ==
            [j \in 1..(n - 1) |-> PercentOver(klines[j + 1].high, klines[j].close)]
    IN  [avg_hourly_volatility |->
            IF n > 1 THEN RDiv(RSum(hourly_changes), FromInt(n - 1)) ELSE Zero,
         max_hourly_pump |-> RMaxFrom(Zero, hourly_pumps),
         volume_spike_ratio |-> VolumeSpikeRatio(klines)]

\* Lines 92-106: the fields set from the ticker (no division by zero here: see
\* MetricsRaises).
TickerFields(symbol, data) ==
    [symbol |-> symbol,
     current_price |-> FromInt(data.last_price),
     price_change_24h |-> FromInt(data.price_change_percent),
     volume_24h |-> FromInt(data.volume),
     quote_volume_24h |-> FromInt(data.quote_volume),
     trade_count_24h |-> data.count,
     high_24h |-> FromInt(data.high_price),
     low_24h |-> FromInt(data.low_price),
     price_range_24h |-> PercentOver(data.high_price, data.low_price),
     distance_from_high |-> Rat((data.high_price - data.last_price) * 100, data.high_price),
     avg_trade_size |-> IF data.count > 0 THEN Rat(data.quote_volume, data.count) ELSE Zero]

\* The metrics when nothing raises: the candle fields are there only when kline_data
\* is not empty (line 110).
calculate_pump_metrics(symbol, data, k) ==
    IF Len(k.rows) > 0
    THEN TickerFields(symbol, data) @@ CandleFields(k.rows)
    ELSE TickerFields(symbol, data)

(* The tickers and candles find_pumped_coins meets. *)

TickerProfiles ==
    LET hot == [price_change_percent |-> 60, volume |-> 100, quote_volume |-> 2000000,
                count |-> 100, last_price |-> 10, high_price |-> 10, low_price |-> 5]
    IN  { hot,
          [hot EXCEPT !.price_change_percent = 10],
          [hot EXCEPT !.price_change_percent = 5],
          [hot EXCEPT !.quote_volume = 500000, !.last_price = 6],
          [hot EXCEPT !.low_price = 0] }

WithSymbol(symbol, profile) == [symbol |-> symbol] @@ profile

\* The j-th ticker of a response: a coin of its own with one of the profiles, a
\* stablecoin pair, or a pair not quoted in USDT.
PumpTickersAt(j) ==
    {WithSymbol(<<ToString(j), USDT>>, q) : q \in TickerProfiles}
        \cup {WithSymbol(<<"USDC", USDT>>, q) : q \in {CHOOSE h \in TickerProfiles :
                    h.price_change_percent = 60 /\ h.quote_volume = 2000000 /\ h.low_price = 5}}
        \cup {WithSymbol(<<"ETH", "USDC">>, q) : q \in {CHOOSE h \in TickerProfiles :
                    h.price_change_percent = 60 /\ h.quote_volume = 2000000 /\ h.low_price = 5}}

PumpTickerLists ==
    UNION {{l \in [1..n -> UNION {PumpTickersAt(j) : j \in 1..n}] :
                \A j \in 1..n : l[j] \in PumpTickersAt(j)} : n \in 0..MaxPumpTickers}

\* n hourly candles closing at close, the last one with high last_high, the volume
\* old in all but the last RECENT_HOURS and new in those.
Klines(n, old, new, last_high, close) ==
    [j \in 1..n |->
        [high |-> IF j = n THEN last_high ELSE close, low |-> close, close |-> close,
         volume |-> IF j > n - RECENT_HOURS THEN new ELSE old]]

\* No candles after a ClientError; another exception; 24 candles with a volume spike
\* of 6 and a last hour 30% up; 2 candles, the last 20% up; 2 candles closing at 0.
KlineOutcomes ==
    { KClientError, KRaise,
      KOk(Klines(KLINE_LIMIT, 1, 6, 13, 10)),
      KOk(Klines(2, 1, 1, 12, 10)),
      KOk(Klines(2, 1, 1, 0, 0)) }

\* Lines 48-61: the tickers kept, in the order of the response (a dict keeps
\* insertion order; the symbols of a response are distinct).
TickerDict(ticker_list) ==
    SelectSeq(ticker_list,
              LAMBDA t : EndsWithUSDT(t.symbol) /\ t.symbol \notin excluded_symbols)

\* The mutant: >= 5 where the code compares with > 5.
PotentialPumpsGe(td) == SelectSeq(td, LAMBDA v : v.price_change_percent >= 5)

\* Line 202.
PotentialPumps(td) == SelectSeq(td, LAMBDA v : v.price_change_percent > 5)

InitPump ==
    /\ prog = "pump" /\ pc = "start" /\ ret = NotReturned /\ i = 0
    /\ visited = <<>>
    /\ RankUnused /\ AtrUnused
    /\ metrics = NoDict /\ score = NoFloat /\ ticker_data = NoList
    /\ potential_pumps = NoList /\ pumped_coins = NoList /\ kline_data = NoList
    /\ min_pump_score \in {25, 30}
    /\ top_n \in 0..MaxTopN

\* Lines 191-204: the ticker statistics arrive, or ClientError makes them {} (line
\* 66), or another exception leaves find_pumped_coins.
PumpStart ==
    /\ prog = "pump" /\ pc = "start"
    /\ \/ /\ \E l \in PumpTickerLists :
                /\ ticker_data' = TickerDict(l)
                /\ IF Len(ticker_data') = 0
                   THEN /\ ret' = ReturnList(<<>>)
                        /\ pc' = "done"
                        /\ UNCHANGED <<potential_pumps, pumped_coins, i>>
                   ELSE /\ potential_pumps' = PotentialPumps(ticker_data')
                        /\ pumped_coins' = <<>>
                        /\ i' = 1
                        /\ pc' = "loop"
                        /\ UNCHANGED ret
       \/ /\ ticker_data' = <<>>
          /\ ret' = ReturnList(<<>>)
          /\ pc' = "done"
          /\ UNCHANGED <<potential_pumps, pumped_coins, i>>
       \/ /\ ret' = Raised
          /\ pc' = "done"
          /\ UNCHANGED <<ticker_data, potential_pumps, pumped_coins, i>>
    /\ UNCHANGED <<prog, visited, rankVars, atrVars, metrics, score, min_pump_score, top_n,
                   kline_data>>

\* The mutant: the exception of one symbol is not caught inside the loop and leaves
\* find_pumped_coins.
PumpStepAborting ==
    /\ prog = "pump" /\ pc = "loop" /\ i <= Len(potential_pumps)
    /\ \E k \in KlineOutcomes :
          LET data == potential_pumps[i]
              m == calculate_pump_metrics(data.symbol, data, k)
              pump_score == calculate_pump_score(m)
              keep == RGe(pump_score, FromInt(min_pump_score))
          IN  IF MetricsRaises(data, k)
              THEN /\ visited' = Append(visited,
                          [symbol |-> data.symbol, outcome |-> "raised", klines |-> k.kind,
                           candles |-> Len(k.rows) > 0, score |-> Zero])
                   /\ ret' = Raised
                   /\ pc' = "done"
                   /\ UNCHANGED <<metrics, score, pumped_coins>>
              ELSE /\ score' = pump_score
                   /\ metrics' = IF keep THEN m @@ [pump_score |-> pump_score] ELSE m
                   /\ pumped_coins' = IF keep THEN Append(pumped_coins, metrics')
                                      ELSE pumped_coins
                   /\ visited' = Append(visited,
                          [symbol |-> data.symbol,
                           outcome |-> IF keep THEN "kept" ELSE "dropped",
                           klines |-> k.kind, candles |-> Len(k.rows) > 0,
                           score |-> pump_score])
                   /\ UNCHANGED <<ret, pc>>
    /\ i' = i + 1
    /\ UNCHANGED <<prog, rankVars, atrVars, ticker_data, potential_pumps,
                   min_pump_score, top_n, kline_data>>

\* Lines 206-223: one iteration of the loop over potential_pumps.  An exception in
\* calculate_pump_metrics is caught at line 221 and the loop goes on.
PumpStep ==
    /\ prog = "pump" /\ pc = "loop" /\ i <= Len(potential_pumps)
    /\ \E k \in KlineOutcomes :
          LET data == potential_pumps[i]
              m == calculate_pump_metrics(data.symbol, data, k)
              pump_score == calculate_pump_score(m)
              keep == RGe(pump_score, FromInt(min_pump_score))
          IN  IF MetricsRaises(data, k)
              THEN /\ visited' = Append(visited,
                          [symbol |-> data.symbol, outcome |-> "raised", klines |-> k.kind,
                           candles |-> Len(k.rows) > 0, score |-> Zero])
                   /\ UNCHANGED <<metrics, score, pumped_coins>>
              ELSE /\ score' = pump_score
                   /\ metrics' = IF keep THEN m @@ [pump_score |-> pump_score] ELSE m
                   /\ pumped_coins' = IF keep THEN Append(pumped_coins, metrics')
                                      ELSE pumped_coins
                   /\ visited' = Append(visited,
                          [symbol |-> data.symbol,
                           outcome |-> IF keep THEN "kept" ELSE "dropped",
                           klines |-> k.kind, candles |-> Len(k.rows) > 0,
                           score |-> pump_score])
    /\ i' = i + 1
    /\ UNCHANGED <<prog, pc, ret, rankVars, atrVars, ticker_data, potential_pumps,
                   min_pump_score, top_n, kline_data>>

\* The mutant: a sort that is not stable.
UnstableByPumpScore(l) == UnstableSortDescBy(l, "pump_score")

\* Line 226.
SortedByPumpScore(l) == SortDescBy(l, "pump_score")

\* Lines 225-228: the sort in place and the slice returned.
PumpReturn ==
    /\ prog = "pump" /\ pc = "loop" /\ i > Len(potential_pumps)
    /\ pumped_coins' = SortedByPumpScore(pumped_coins)
    /\ ret' = ReturnList(Take(pumped_coins', top_n))
    /\ pc' = "done"
    /\ UNCHANGED <<prog, i, visited, rankVars, atrVars, metrics, score, ticker_data,
                   potential_pumps, min_pump_score, top_n, kline_data>>

NextPump == PumpStart \/ PumpStep \/ PumpReturn

SpecPump == InitPump /\ [][NextPump]_vars

(* calculate_pump_metrics alone (pump.py lines 90-135), on one ticker and on      *)
(* candle lists whose volumes are drawn from a small set.                        *)

\* n hourly candles at a steady price 10: the volume is old in the candles before
\* the last RECENT_HOURS, but first_old in the first and last_old in the last of them,
\* and new in the last RECENT_HOURS, but first_new in the first of them.
VolumeWindow(n, old, first_old, last_old, new, first_new) ==
    [j \in 1..n |->
        [high |-> 10, low |-> 10, close |-> 10,
         volume |-> IF j = 1 THEN first_old
                    ELSE IF j = n - RECENT_HOURS THEN last_old
                    ELSE IF j < n - RECENT_HOURS THEN old
                    ELSE IF j = n - RECENT_HOURS + 1 THEN first_new
                    ELSE new]]

\* What get_kline_data gives calculate_pump_metrics: KLINE_LIMIT candles, or one less.
VolumeWindows ==
    {VolumeWindow(n, a[1], a[2], a[3], a[4], a[5]) :
        n \in (KLINE_LIMIT - 1)..KLINE_LIMIT, a \in [1..5 -> 0..MaxCandleVolume]}

InitMetrics ==
    /\ prog = "metrics" /\ pc = "call" /\ ret = NotReturned /\ i = 0
    /\ visited = <<>>
    /\ RankUnused /\ AtrUnused
    /\ ticker_data \in {WithSymbol(<<"1", USDT>>, q) : q \in TickerProfiles}
    /\ kline_data \in VolumeWindows
    /\ metrics = NoDict /\ score = NoFloat
    /\ potential_pumps = NoList /\ pumped_coins = NoList
    /\ min_pump_score = 0 /\ top_n = 0

\* One call of calculate_pump_metrics(symbol, ticker_data) in which get_kline_data
\* returns kline_data: the metrics, or the ZeroDivisionError of line 104.
MetricsCall ==
    /\ prog = "metrics" /\ pc = "call"
    /\ IF MetricsRaises(ticker_data, KOk(kline_data))
       THEN ret' = Raised /\ UNCHANGED metrics
       ELSE /\ metrics' = calculate_pump_metrics(ticker_data.symbol, ticker_data, KOk(kline_data))
            /\ ret' = [kind |-> "dict"]
    /\ pc' = "done"
    /\ UNCHANGED <<prog, i, visited, rankVars, atrVars, score, ticker_data, potential_pumps,
                   pumped_coins, min_pump_score, top_n, kline_data>>

NextMetrics == MetricsCall

SpecMetrics == InitMetrics /\ [][NextMetrics]_vars

----------------------------------------------------------------------------
(* ATRScanner.calculate_atr and calculate_atr_percentage (pump.py lines 352-395) *)

\* A float that is not a number.
NaN == [n |-> 0, d |-> 0]
IsNaN(x) == x.d = 0

\* The mutant: the range of the candle alone, without the two distances from the
\* previous close.
TrueRangeHighLow(d, j) == d[j].high - d[j].low

\* The mutant: a sign slip in tr2.
TrueRangeSignSlip(d, j) ==
    LET tr1 == d[j].high - d[j].low
    IN  IF j = 1 THEN tr1
        ELSE Max(tr1, Max(Abs(d[j].high + d[j - 1].close), Abs(d[j].low - d[j - 1].close)))

\* Lines 366-373, row j of true_range: prev_close is close.shift(1), NaN in row 1, so
\* tr2 and tr3 are NaN there, and max(axis=1) skips NaN: row 1 is high - low.
TrueRange(d, j) ==
    LET tr1 == d[j].high - d[j].low
    IN  IF j = 1 THEN tr1
        ELSE Max(tr1, Max(Abs(d[j].high - d[j - 1].close), Abs(d[j].low - d[j - 1].close)))

true_range(d) == [j \in 1..Len(d) |-> TrueRange(d, j)]

\* The mutant: the mean of the whole series, not of the last window values.
ExpandingMeanLast(tr, window) ==
    IF Len(tr) < window THEN NaN ELSE Rat(SumSeq(tr), Len(tr))

\* Line 376: tr.rolling(window).mean().iloc[-1], NaN when tr is shorter than window.
RollingMeanLast(tr, window) ==
    IF Len(tr) < window THEN NaN
    ELSE Rat(SumSeq(SubSeq(tr, Len(tr) - window + 1, Len(tr))), window)

calculate_atr(d, p) ==
    IF Len(d) < p + 1 THEN Zero
    ELSE LET atr == RollingMeanLast(true_range(d), p)
         IN  IF IsNaN(atr) THEN Zero ELSE atr

\* The mutant: the guard on current_price left out of the comparison's equal case.
calculate_atr_percentage_lt(atr, price, mult) ==
    IF RLt(price, Zero) THEN Zero
    ELSE IF price = Zero THEN NaN
    ELSE RMul(RDiv(RMul(atr, mult), price), FromInt(100))

calculate_atr_percentage(atr, price, mult) ==
    IF RLe(price, Zero) THEN Zero
    ELSE LET atr_adjusted == RMul(atr, mult)
         IN  RMul(RDiv(atr_adjusted, price), FromInt(100))

(* The two functions alone, on candle series drawn from a small set. *)

CandlePrices == {1, 2}
Candles == [high : CandlePrices, low : CandlePrices, close : CandlePrices]
PriceArgs == {FromInt(-1), Zero, Rat(1, 2), FromInt(1), FromInt(2)}
\* 0, the multiplier main() passes (0.5) and the default (1.5).
Multipliers == {Zero, Rat(1, 2), Rat(3, 2)}

InitATR ==
    /\ prog = "atr" /\ pc = "atr" /\ ret = NotReturned /\ i = 0
    /\ visited = <<>>
    /\ RankUnused /\ PumpUnused
    /\ df \in SeqsUpTo(Candles, MaxCandles)
    /\ period \in 1..MaxPeriod
    /\ multiplier = NoFloat /\ atr_value = NoFloat /\ current_price = NoFloat
    /\ atr_percentage = NoFloat
    /\ symbols = NoList /\ results = NoList /\ min_atr_percentage = NoFloat

\* One call of calculate_atr(df, period).
ATRCall ==
    /\ prog = "atr" /\ pc = "atr"
    /\ atr_value' = calculate_atr(df, period)
    /\ pc' = "pct"
    /\ UNCHANGED <<prog, ret, i, visited, rankVars, pumpVars, df, period, multiplier,
                   current_price, atr_percentage, symbols, results, min_atr_percentage>>

\* One call of calculate_atr_percentage on that value.
PctCall ==
    /\ prog = "atr" /\ pc = "pct"
    /\ \E price \in PriceArgs, mult \in Multipliers :
          /\ current_price' = price
          /\ multiplier' = mult
          /\ atr_percentage' = calculate_atr_percentage(atr_value, price, mult)
    /\ pc' = "done"
    /\ UNCHANGED <<prog, ret, i, visited, rankVars, pumpVars, df, period, atr_value,
                   symbols, results, min_atr_percentage>>

NextATR == ATRCall \/ PctCall

SpecATR == InitATR /\ [][NextATR]_vars

----------------------------------------------------------------------------
(* ATRScanner.scan_symbols and what it calls (pump.py lines 305-350, 397-450) *)

\* Lines 313-315.
Active(symbol_info) ==
    /\ EndsWithUSDT(symbol_info.symbol)
    /\ symbol_info.contractType = "PERPETUAL"
    /\ symbol_info.status = "TRADING"

\* The j-th entry of exchange_info['symbols']: a trading USDT perpetual of its own
\* name, or an entry the filter drops.
SymbolInfosAt(j) ==
    { [symbol |-> <<ToString(j), USDT>>, contractType |-> "PERPETUAL", status |-> "TRADING"],
      [symbol |-> <<ToString(j), USDT>>, contractType |-> "PERPETUAL", status |-> "SETTLING"],
      [symbol |-> <<ToString(j), USDT>>, contractType |-> "CURRENT_QUARTER", status |-> "TRADING"],
      [symbol |-> <<ToString(j), "USDC">>, contractType |-> "PERPETUAL", status |-> "TRADING"] }

ExchangeInfos ==
    UNION {{l \in [1..n -> UNION {SymbolInfosAt(j) : j \in 1..n}] :
                \A j \in 1..n : l[j] \in SymbolInfosAt(j)} : n \in 0..MaxSymbols}

\* Lines 305-321: the symbols of the entries kept.
ActiveSymbols(infos) ==
    LET kept == SelectSeq(infos, Active)
    IN  [j \in 1..Len(kept) |-> kept[j].symbol]

Candle(h, l, c) == [high |-> h, low |-> l, close |-> c]

\* What get_kline_data (lines 323-350) gives scan_symbols: None after any exception,
\* or the frame: one candle; four flat candles; four candles that move; four candles
\* the last of which closes at 0.
FrameOutcomes ==
    { [kind |-> "None", rows |-> <<>>],
      [kind |-> "frame", rows |-> <<Candle(2, 2, 2)>>],
      [kind |-> "frame", rows |-> <<Candle(2, 2, 2), Candle(2, 2, 2), Candle(2, 2, 2), Candle(2, 2, 2)>>],
      [kind |-> "frame", rows |-> <<Candle(2, 1, 2), Candle(4, 2, 3), Candle(3, 1, 1), Candle(2, 1, 2)>>],
      [kind |-> "frame", rows |-> <<Candle(2, 1, 2), Candle(4, 2, 3), Candle(3, 1, 1), Candle(1, 0, 0)>>] }

\* df is what get_kline_data returned: its kind (None or a frame) and the frame's rows.
InitScan ==
    /\ prog = "scan" /\ pc = "start" /\ ret = NotReturned /\ i = 0
    /\ visited = <<>>
    /\ RankUnused /\ PumpUnused
    /\ df = NoFrame /\ atr_value = NoFloat /\ current_price = NoFloat
    /\ atr_percentage = NoFloat
    /\ symbols = NoList /\ results = NoList
    /\ period \in 1..MaxPeriod
    /\ multiplier \in {Rat(1, 2), Rat(3, 2)}
    /\ min_atr_percentage \in {Zero, FromInt(20)}

\* Lines 408-412: the active symbols, [] when exchange_info raises (line 321).
ScanStart ==
    /\ prog = "scan" /\ pc = "start"
    /\ \/ \E infos \in ExchangeInfos : symbols' = ActiveSymbols(infos)
       \/ symbols' = <<>>
    /\ results' = <<>>
    /\ i' = 1
    /\ pc' = "loop"
    /\ UNCHANGED <<prog, ret, visited, rankVars, pumpVars, df, period, multiplier, atr_value,
                   current_price, atr_percentage, min_atr_percentage>>

\* Lines 414-448: one iteration of the loop over symbols.
ScanStep ==
    /\ prog = "scan" /\ pc = "loop" /\ i <= Len(symbols)
    /\ \E f \in FrameOutcomes :
          /\ df' = f
          /\ IF f.kind = "None" \/ Len(f.rows) < period + 1
             THEN /\ visited' = Append(visited,
                        [symbol |-> symbols[i],
                         outcome |-> IF f.kind = "None" THEN "none" ELSE "short"])
                  /\ UNCHANGED <<atr_value, current_price, atr_percentage, results>>
             ELSE /\ atr_value' = calculate_atr(f.rows, period)
                  /\ current_price' = FromInt(f.rows[Len(f.rows)].close)
                  /\ atr_percentage' =
                        calculate_atr_percentage(atr_value', current_price', multiplier)
                  /\ LET keep == RGe(atr_percentage', min_atr_percentage)
                     IN  /\ results' =
                              IF keep
                              THEN Append(results,
                                      [symbol |-> symbols[i], current_price |-> current_price',
                                       atr_value |-> atr_value',
                                       atr_percentage |-> atr_percentage',
                                       atr_period |-> period, atr_multiplier |-> multiplier])
                              ELSE results
                         /\ visited' = Append(visited,
                                [symbol |-> symbols[i],
                                 outcome |-> IF keep THEN "kept" ELSE "below"])
    /\ i' = i + 1
    /\ UNCHANGED <<prog, pc, ret, rankVars, pumpVars, period, multiplier, symbols,
                   min_atr_percentage>>

\* Line 450.
ScanReturn ==
    /\ prog = "scan" /\ pc = "loop" /\ i > Len(symbols)
    /\ ret' = ReturnList(results)
    /\ pc' = "done"
    /\ UNCHANGED <<prog, i, visited, rankVars, pumpVars, atrVars>>

NextScan == ScanStart \/ ScanStep \/ ScanReturn

SpecScan == InitScan /\ [][NextScan]_vars

(* The two scan loops, each run to its end: a for loop over a finite list goes on *)
(* to its next iteration and the function returns.                                 *)

InitLoops == InitPump \/ InitScan

NextLoops == NextPump \/ NextScan

FairLoops == InitLoops /\ [][NextLoops]_vars /\ WF_vars(NextLoops)

(* The ATR functions alone and inside scan_symbols. *)

InitATRAll == InitATR \/ InitScan

NextATRAll == NextATR \/ NextScan

SpecATRAll == InitATRAll /\ [][NextATRAll]_vars

----------------------------------------------------------------------------
Init == InitRank \/ InitScore \/ InitPump \/ InitATR \/ InitScan \/ InitMetrics

Next == NextRank \/ NextScore \/ NextPump \/ NextATR \/ NextScan \/ NextMetrics

Spec == Init /\ [][Next]_vars

----------------------------------------------------------------------------
(* Claims *)

\* C1: once get_top_100_um_futures has sorted, the accepted records are the tickers
\* that pass the filter, in input order; the sorted list is non-increasing in
\* quoteVolume; for every volume the records of that volume are, in the sorted list,
\* the same records in the same order as in the accepted list (so the sorted list is
\* a stable permutation of it); and top_100 is its first 100 records.
C1_RankedStableTop100 ==
    (prog = "rank" /\ pc = "display") =>
        LET n == Len(usdt_futures_sorted)
            passed == SelectSeq(ticker_stats,
                        LAMBDA t : t.symbol[Len(t.symbol)] = "USDT"
                                   /\ \A j \in 1..Len(t.symbol) : t.symbol[j] \notin Months)
        IN  /\ Len(usdt_futures) = Len(passed)
            /\ \A j \in 1..Len(passed) :
                  /\ usdt_futures[j].symbol = passed[j].symbol
                  /\ usdt_futures[j].quoteVolume = [n |-> passed[j].quoteVolume, d |-> 1]
            /\ \A j \in 1..n : \A k \in j..n :
                  usdt_futures_sorted[j].quoteVolume.n * usdt_futures_sorted[k].quoteVolume.d
                      >= usdt_futures_sorted[k].quoteVolume.n * usdt_futures_sorted[j].quoteVolume.d
            /\ n = Len(usdt_futures)
            /\ \A v \in {usdt_futures[j].quoteVolume : j \in 1..Len(usdt_futures)} :
                  WithKey(usdt_futures_sorted, "quoteVolume", v)
                      = WithKey(usdt_futures, "quoteVolume", v)
            /\ Len(top_100) = IF n <= 100 THEN n ELSE 100
            /\ \A j \in 1..Len(top_100) : top_100[j] = usdt_futures_sorted[j]

\* C1's case: more than 100 accepted records, the sort moved some, two of the kept
\* records have equal volume, and the cut dropped some.
C1_Witness ==
    /\ prog = "rank" /\ pc = "display"
    /\ Len(usdt_futures) > 100
    /\ usdt_futures_sorted # usdt_futures
    /\ \E j, k \in 1..Len(top_100) :
          j < k /\ top_100[j].quoteVolume = top_100[k].quoteVolume
    /\ Len(top_100) < Len(usdt_futures_sorted)

HasCandleFields(m) == "volume_spike_ratio" \in DOMAIN m /\ "max_hourly_pump" \in DOMAIN m

\* C4: the score calculate_pump_score returned is the rule of the claim: the three
\* tiers summed, times the distance factor, times 1/2 when quote volume < 1,000,000,
\* rounded to 2 decimals (a multiple of 1/100 at most 1/200 away); and the three
\* examples score 85, 42.5 and 42.5.
C4_ScoreIsTheRule ==
    (prog = "score" /\ pc = "done" /\ HasCandleFields(metrics)) =>
        LET p == metrics.price_change_24h
            v == metrics.volume_spike_ratio
            h == metrics.max_hourly_pump
            dist == metrics.distance_from_high
            q == metrics.quote_volume_24h
            t1 == CASE p.n > 50 * p.d -> 40 [] p.n <= 50 * p.d /\ p.n > 30 * p.d -> 30
                    [] p.n <= 30 * p.d /\ p.n > 15 * p.d -> 20
                    [] p.n <= 15 * p.d /\ p.n > 5 * p.d -> 10 [] OTHER -> 0
            t2 == CASE v.n > 5 * v.d -> 25 [] v.n <= 5 * v.d /\ v.n > 3 * v.d -> 20
                    [] v.n <= 3 * v.d /\ v.n > 2 * v.d -> 15
                    [] v.n <= 2 * v.d /\ 2 * v.n > 3 * v.d -> 10 [] OTHER -> 0
            t3 == CASE h.n > 20 * h.d -> 20 [] h.n <= 20 * h.d /\ h.n > 15 * h.d -> 15
                    [] h.n <= 15 * h.d /\ h.n > 10 * h.d -> 10
                    [] h.n <= 10 * h.d /\ h.n > 5 * h.d -> 5 [] OTHER -> 0
            \* the factors in hundredths
            f == CASE dist.n > 30 * dist.d -> 50 [] dist.n <= 30 * dist.d /\ dist.n > 20 * dist.d -> 70
                   [] dist.n <= 20 * dist.d /\ dist.n > 10 * dist.d -> 85 [] OTHER -> 100
            l == IF q.n < 1000000 * q.d THEN 50 ELSE 100
            \* the unrounded score in ten-thousandths
            x == (t1 + t2 + t3) * f * l
        IN  /\ 100 % score.d = 0
            /\ 2 * Abs(score.n * (10000 \div score.d) - x) <= 100
            /\ (p = FromInt(60) /\ v = FromInt(6) /\ h = FromInt(25) /\ dist = FromInt(5)
                    /\ q = FromInt(2000000)) => score = FromInt(85)
            /\ (p = FromInt(60) /\ v = FromInt(6) /\ h = FromInt(25) /\ dist = FromInt(5)
                    /\ q = FromInt(500000)) => score = Rat(85, 2)
            /\ (p = FromInt(60) /\ v = FromInt(6) /\ h = FromInt(25) /\ dist = FromInt(35)
                    /\ q = FromInt(2000000)) => score = Rat(85, 2)

\* C4's case: the third example has been scored (the top of every tier, the heaviest
\* distance penalty, no liquidity penalty).
C4_Witness ==
    /\ prog = "score" /\ pc = "done" /\ HasCandleFields(metrics)
    /\ metrics.price_change_24h = FromInt(60) /\ metrics.volume_spike_ratio = FromInt(6)
    /\ metrics.max_hourly_pump = FromInt(25) /\ metrics.distance_from_high = FromInt(35)
    /\ metrics.quote_volume_24h = FromInt(2000000)
    /\ score = Rat(85, 2)

\* C5: the score returned for metrics is <= the score of the same metrics with any
\* larger price_change_24h, and >= the score with any smaller one.
C5_MonotoneInPriceChange ==
    (prog = "score" /\ pc = "done") =>
        \A b \in PriceGrid :
            LET other == calculate_pump_score([metrics EXCEPT !["price_change_24h"] = b])
            IN  /\ RLe(metrics.price_change_24h, b) => RLe(score, other)
                /\ RLe(b, metrics.price_change_24h) => RLe(other, score)

\* C5's case: a larger price change that crosses a tier and scores strictly more, with
\* both penalties applied.
C5_Witness ==
    /\ prog = "score" /\ pc = "done"
    /\ metrics.price_change_24h = FromInt(30)
    /\ GtInt(metrics.distance_from_high, 10) /\ LtInt(metrics.quote_volume_24h, 1000000)
    /\ RLt(score, calculate_pump_score([metrics EXCEPT !["price_change_24h"] = FromInt(35)]))

\* C2 (the claim as stated; the code returns 0.0): for fewer than period + 1 candles
\* what calculate_atr returns is not the number 0, the value it returns for a series
\* whose true range is 0.
C2_ShortInputIsNotZero ==
    (prog = "atr" /\ pc # "atr" /\ Len(df) < period + 1) => atr_value # Zero

\* C3: for N >= P + 1 candles, P times the value calculate_atr returned is the sum
\* over the last P candles of max(high - low, |high - prev close|, |low - prev close|),
\* none of them the first candle; and the value is the same whatever the first
\* candle's high and low are.
C3_MeanOfLastTrueRanges ==
    (prog = "atr" /\ pc # "atr" /\ Len(df) >= period + 1) =>
        LET N == Len(df)
            TR(j) == LET a == df[j].high - df[j].low
                         b == Abs(df[j].high - df[j - 1].close)
                         c == Abs(df[j].low - df[j - 1].close)
                     IN  IF a >= b /\ a >= c THEN a ELSE IF b >= c THEN b ELSE c
            last == [k \in 1..period |-> TR(N - period + k)]
        IN  /\ N - period + 1 >= 2
            /\ atr_value.d # 0
            /\ atr_value.n * period = SumSeq(last) * atr_value.d
            /\ \A h, l \in CandlePrices :
                  calculate_atr([df EXCEPT ![1].high = h, ![1].low = l], period) = atr_value

\* C3's case: a period of 2 over 3 candles, a gap from the previous close larger than
\* the candle's own range, a first candle with a range of its own, and a mean that is
\* not a whole number.
C3_Witness ==
    /\ prog = "atr" /\ pc = "done" /\ period = 2 /\ Len(df) = 3
    /\ df[1].high - df[1].low # 0
    /\ Abs(df[3].high - df[2].close) > df[3].high - df[3].low
    /\ atr_value = Rat(1, 2)

\* C6 (the claim as stated; the code scores the symbol all the same): in
\* find_pumped_coins the scorer is invoked only on metrics of a symbol whose kline
\* fetch gave candles, and every record returned has the candle-derived fields.
C6_MissingCandlesNeverScored ==
    prog = "pump" =>
        /\ \A j \in 1..Len(visited) :
              visited[j].outcome \in {"kept", "dropped"} => visited[j].candles
        /\ (pc = "done" /\ ret.kind = "list") =>
              \A j \in 1..Len(ret.val) : HasCandleFields(ret.val[j])

\* The symbols a loop iterates over and what it has collected.
LoopItems ==
    IF prog = "pump" THEN [j \in 1..Len(potential_pumps) |-> potential_pumps[j].symbol]
    ELSE symbols

Collected == IF prog = "pump" THEN pumped_coins ELSE results

IsPrefix(s, t) == Len(s) <= Len(t) /\ \A j \in 1..Len(s) : s[j] = t[j]

\* What a step of either loop does, whatever happens to the symbol at hand: while a
\* symbol is left the loop stays in the loop, moves to the next symbol, has visited
\* the symbol at hand after the ones visited before, and keeps what it had collected
\* as a prefix of what it has collected now; when none is left it has visited the
\* symbols of its list, each once and in order, and returns a list of the records
\* collected.
C7_StepIsolated ==
    (prog \in {"pump", "scan"} /\ pc = "loop") =>
        IF i <= Len(LoopItems)
        THEN /\ pc' = "loop"
             /\ i' = i + 1
             /\ LoopItems' = LoopItems
             /\ visited' = Append(visited, visited'[i])
             /\ visited'[i].symbol = LoopItems[i]
             /\ IsPrefix(Collected, Collected')
             /\ Len(Collected') <= Len(Collected) + 1
        ELSE /\ pc' = "done"
             /\ visited' = visited
             /\ Len(visited) = Len(LoopItems)
             /\ \A j \in 1..Len(visited) : visited[j].symbol = LoopItems[j]
             /\ \A j, k \in 1..Len(visited) :
                    visited[j].symbol = visited[k].symbol => j = k
             /\ ret'.kind = "list"
             /\ {ret'.val[j] : j \in 1..Len(ret'.val)}
                    \subseteq {Collected[j] : j \in 1..Len(Collected)}
             /\ prog = "scan" => ret'.val = results

\* C7: in find_pumped_coins and in scan_symbols every step of the loop is isolated
\* in the sense above (a failure for one symbol neither ends the loop nor changes the
\* results collected before it, the symbols after it are still visited, each symbol
\* once), and the loop terminates: the function returns.
C7_LoopsIsolatedAndTerminate ==
    [][C7_StepIsolated]_vars /\ <>(pc = "done")

\* C7's case: scan_symbols has returned after a symbol was collected, the fetch for
\* the next one failed, and a symbol after that one was collected.
C7_Witness ==
    /\ prog = "scan" /\ pc = "done"
    /\ \E j, k, l \in 1..Len(visited) :
          /\ j < k /\ k < l
          /\ visited[j].outcome = "kept"
          /\ visited[k].outcome = "none"
          /\ visited[l].outcome = "kept"
    /\ Len(ret.val) = 2

\* The place of a symbol in the order of iteration.
IterationIndex(symbol) == CHOOSE p \in 1..Len(visited) : visited[p].symbol = symbol

\* C8: the list find_pumped_coins returned is non-increasing in pump_score; of two
\* records with the same pump_score the one whose symbol was iterated first comes
\* first; the records are those of symbols that were kept, with the score computed
\* for them; and the list is cut to top_n, no kept symbol left out scoring more than
\* one returned.
C8_ResultOrderedStable ==
    (prog = "pump" /\ pc = "done" /\ ret.kind = "list") =>
        LET n == Len(ret.val)
            kept == {p \in 1..Len(visited) : visited[p].outcome = "kept"}
        IN  /\ \A j \in 1..n :
                  /\ \E p \in kept : visited[p].symbol = ret.val[j].symbol
                  /\ ret.val[j].pump_score = visited[IterationIndex(ret.val[j].symbol)].score
            /\ \A j \in 1..n : \A k \in (j + 1)..n :
                  LET a == ret.val[j].pump_score
                      b == ret.val[k].pump_score
                  IN  /\ a.n * b.d >= b.n * a.d
                      /\ a.n * b.d = b.n * a.d =>
                            IterationIndex(ret.val[j].symbol) < IterationIndex(ret.val[k].symbol)
            /\ n = IF Cardinality(kept) <= top_n THEN Cardinality(kept) ELSE top_n
            /\ \A p \in kept :
                  (\A j \in 1..n : ret.val[j].symbol # visited[p].symbol) =>
                      \A j \in 1..n :
                          ret.val[j].pump_score.n * visited[p].score.d
                              >= visited[p].score.n * ret.val[j].pump_score.d

\* C8's case: two records with the same pump_score were returned.
C8_Witness ==
    /\ prog = "pump" /\ pc = "done" /\ ret.kind = "list"
    /\ Len(ret.val) = 2
    /\ ret.val[1].pump_score = ret.val[2].pump_score
    /\ ret.val[1].symbol # ret.val[2].symbol

\* C9 (the claim as stated; the code returns None): when the fetch succeeded and no
\* ticker passed the filter, get_top_100_um_futures returns the empty list.
C9_EmptyInputReturnsEmpty ==
    (prog = "rank" /\ pc = "done" /\ i > 0 /\ Len(usdt_futures) = 0) =>
        (ret.kind = "list" /\ Len(ret.val) = 0)

\* C10: the value calculate_atr_percentage returned times the price is
\* atr_value * multiplier * 100 when the price is > 0, and the value is 0 (a number)
\* when the price is <= 0, both for the function alone and inside scan_symbols; and
\* in scan_symbols the price of a symbol whose frame was long enough is the close of
\* the frame's last candle.
C10_PercentageOfPrice ==
    LET called == \/ prog = "atr" /\ pc = "done"
                  \/ /\ prog = "scan" /\ Len(visited) > 0
                     /\ visited[Len(visited)].outcome \in {"kept", "below"}
    IN  called =>
            /\ current_price.n > 0 =>
                  /\ atr_percentage.d # 0
                  /\ atr_percentage.n * current_price.n * atr_value.d * multiplier.d
                        = atr_value.n * multiplier.n * 100 * atr_percentage.d * current_price.d
            /\ current_price.n <= 0 => atr_percentage = [n |-> 0, d |-> 1]
            /\ prog = "scan" =>
                  current_price = [n |-> df.rows[Len(df.rows)].close, d |-> 1]

\* C10's case: scan_symbols has computed a percentage that is not 0 from the last
\* close of a frame, after a symbol whose last close was 0.
C10_Witness ==
    /\ prog = "scan" /\ Len(visited) > 1
    /\ visited[Len(visited)].outcome = "kept"
    /\ current_price = FromInt(2) /\ atr_percentage.n > 0
    /\ results[1].current_price = Zero /\ results[1].atr_percentage = Zero

\* C11: whatever the candles (a high below the low included), the period and the
\* multiplier >= 0, the value calculate_atr returned is a number >= 0, and so is the
\* value calculate_atr_percentage returned for it with any price.
C11_NeverNegative ==
    (prog = "atr" /\ pc # "atr") =>
        /\ atr_value.d > 0 /\ atr_value.n >= 0
        /\ (pc = "done" /\ multiplier.n >= 0) =>
              (atr_percentage.d > 0 /\ atr_percentage.n >= 0)

\* C11's case: a candle inside the averaged window has its high below its low, and
\* both values came out > 0.
C11_Witness ==
    /\ prog = "atr" /\ pc = "done" /\ Len(df) >= period + 1
    /\ df[Len(df)].high < df[Len(df)].low
    /\ df[1].high < df[1].low
    /\ atr_value.n > 0 /\ multiplier.n > 0 /\ current_price.n > 0
    /\ atr_percentage.n > 0

\* C12: for at least period + 1 candles that all have high = low = close = C > 0,
\* calculate_atr returned 0 and calculate_atr_percentage returned 0.
C12_FlatSeriesIsZero ==
    LET flat == \E C \in CandlePrices :
                    C > 0 /\ \A j \in 1..Len(df) : df[j] = [high |-> C, low |-> C, close |-> C]
    IN  (prog = "atr" /\ pc # "atr" /\ Len(df) >= period + 1 /\ flat) =>
            /\ atr_value = [n |-> 0, d |-> 1]
            /\ pc = "done" => atr_percentage = [n |-> 0, d |-> 1]

\* C12's case: three candles at 2, a period of 2, a price and a multiplier > 0.
C12_Witness ==
    /\ prog = "atr" /\ pc = "done" /\ period = 2
    /\ df = [j \in 1..3 |-> [high |-> 2, low |-> 2, close |-> 2]]
    /\ current_price = FromInt(2) /\ multiplier = Rat(3, 2)
    /\ atr_value = Zero /\ atr_percentage = Zero

C14_ScorerTotalAndPure ==
    [][(prog = "score" /\ pc = "call") =>
            /\ pc' = "done"
            /\ score'.d > 0
            /\ 100 % score'.d = 0
            /\ ret'.kind # "raise"
            /\ metrics' = metrics]_vars

\* C14's case: metrics without the candle fields, a negative price change and no
\* quote volume have been scored, and metrics with them and a top price change too.
C14_Witness ==
    /\ prog = "score" /\ pc = "done"
    /\ ~HasCandleFields(metrics)
    /\ metrics.price_change_24h = FromInt(-5) /\ metrics.quote_volume_24h = Zero
    /\ score = Zero

\* C15 (the claim as stated; 85 * 0.85 * 0.5 rounds to 36.12): the score is in
\* [0, 85]; it is 85 only when the three tiers are at their top, distance_from_high
\* <= 10 and quote_volume_24h >= 1,000,000; and it is at most 21.25 whenever both the
\* distance penalty (distance_from_high > 10) and the liquidity penalty apply.
C15_BoundsAsStated ==
    (prog = "score" /\ pc = "done") =>
        LET dist == Get(metrics, "distance_from_high", Zero)
            q == metrics.quote_volume_24h
        IN  /\ score.n >= 0 /\ score.n <= 85 * score.d
            /\ score = [n |-> 85, d |-> 1] =>
                  /\ HasCandleFields(metrics)
                  /\ metrics.price_change_24h.n > 50 * metrics.price_change_24h.d
                  /\ metrics.volume_spike_ratio.n > 5 * metrics.volume_spike_ratio.d
                  /\ metrics.max_hourly_pump.n > 20 * metrics.max_hourly_pump.d
                  /\ dist.n <= 10 * dist.d
                  /\ q.n >= 1000000 * q.d
            /\ (dist.n > 10 * dist.d /\ q.n < 1000000 * q.d) =>
                  4 * score.n <= 85 * score.d

\* C15 (amended): the score is in [0, 85]; it is 85 only when the three tiers are at
\* their top, distance_from_high <= 10 and quote_volume_24h >= 1,000,000; when both
\* penalties apply it is at most 85 * 0.85 * 0.5 = 36.125; and it is at most 21.25
\* when distance_from_high > 30 and the liquidity penalty applies.
C15_ScoreBounds ==
    (prog = "score" /\ pc = "done") =>
        LET dist == Get(metrics, "distance_from_high", Zero)
            q == metrics.quote_volume_24h
        IN  /\ score.n >= 0 /\ score.n <= 85 * score.d
            /\ score = [n |-> 85, d |-> 1] =>
                  /\ HasCandleFields(metrics)
                  /\ metrics.price_change_24h.n > 50 * metrics.price_change_24h.d
                  /\ metrics.volume_spike_ratio.n > 5 * metrics.volume_spike_ratio.d
                  /\ metrics.max_hourly_pump.n > 20 * metrics.max_hourly_pump.d
                  /\ dist.n <= 10 * dist.d
                  /\ q.n >= 1000000 * q.d
            /\ (dist.n > 10 * dist.d /\ q.n < 1000000 * q.d) =>
                  8 * score.n <= 289 * score.d
            /\ (dist.n > 30 * dist.d /\ q.n < 1000000 * q.d) =>
                  4 * score.n <= 85 * score.d

\* C15's case: the three tiers at their top, the lightest distance penalty and the
\* liquidity penalty: 36.125, rounded to 36.12.
C15_Witness ==
    /\ prog = "score" /\ pc = "done" /\ HasCandleFields(metrics)
    /\ metrics.price_change_24h = FromInt(60) /\ metrics.volume_spike_ratio = FromInt(6)
    /\ metrics.max_hourly_pump = FromInt(25) /\ metrics.distance_from_high = FromInt(15)
    /\ metrics.quote_volume_24h = FromInt(500000)
    /\ score = Rat(903, 25)

\* C16: of the list find_pumped_coins returned, every record has a pump_score >=
\* min_pump_score and a 24h price change > 5; the list has at most top_n records; no
\* symbol is in it twice; and no symbol that was scored and is not in it scored
\* strictly more than a record of the list.
C16_OutputFilter ==
    (prog = "pump" /\ pc = "done" /\ ret.kind = "list") =>
        LET n == Len(ret.val)
            scored == {p \in 1..Len(visited) : visited[p].outcome \in {"kept", "dropped"}}
        IN  /\ \A j \in 1..n :
                  /\ ret.val[j].pump_score.n >= min_pump_score * ret.val[j].pump_score.d
                  /\ ret.val[j].price_change_24h.n > 5 * ret.val[j].price_change_24h.d
            /\ n <= top_n
            /\ \A j, k \in 1..n : ret.val[j].symbol = ret.val[k].symbol => j = k
            /\ \A p \in scored :
                  (\A j \in 1..n : ret.val[j].symbol # visited[p].symbol) =>
                      \A j \in 1..n :
                          ~(visited[p].score.n * ret.val[j].pump_score.d
                                > ret.val[j].pump_score.n * visited[p].score.d)

\* C16's case: with top_n = 1, of two symbols that reached min_pump_score the one
\* iterated second scored more and is the one returned.
C16_Witness ==
    /\ prog = "pump" /\ pc = "done" /\ ret.kind = "list"
    /\ top_n = 1 /\ Len(ret.val) = 1 /\ Len(visited) = 2
    /\ visited[1].outcome = "kept" /\ visited[2].outcome = "kept"
    /\ ret.val[1].symbol = visited[2].symbol
    /\ RLt(visited[1].score, visited[2].score)

====
